---- MODULE Spec2Model ----
(***************************************************************************)
(* A model of ouija.js, the AskOuija moderation bot: comment normalisation *)
(* and classification (OuijaComment), sibling deduplication                *)
(* (CommentDuplicateHandler), the recursive sequence collector and the     *)
(* resolution policy (OuijaQuery), and the batch run around them.          *)
(*                                                                         *)
(* A string of the program is a sequence of symbols (code points); each    *)
(* symbol is written as a TLA+ string.  "<sz>" is the German sharp s and   *)
(* "<emoji>" one emoji (a single code point, two UTF-16 code units).       *)
(* The JavaScript value undefined is the empty tuple; a present value v    *)
(* is the one-element tuple <<v>>.                                         *)
(***************************************************************************)
EXTENDS Integers, Sequences, FiniteSets, TLC

VARIABLES
    snooComment,    \* classification: the platform comment handed to new OuijaComment
    ouijaComment,   \* classification: the OuijaComment constructed from it
    siblings,       \* deduplication: the sibling group, in platform order
    handled,        \* deduplication: how many siblings handle() has been applied to
    dupHandler,     \* deduplication: CommentDuplicateHandler.comments (key -> comment)
    threshold,      \* COMMENT_SCORE_THRESHOLD (process.env.threshold)
    now,            \* the clock moment() reads, in seconds
    query,          \* the OuijaQuery under evaluation
    response,       \* what the evaluation returned
    posts,          \* the submissions the platform serves
    removals,       \* the log of OuijaComment.remove calls: [id, reason, sent]
    flairWrites,    \* the log of post.assign_flair calls: [post, text, css_class]
    messages,       \* the log of r.compose_message calls: [to, post, answer, goodbye]
    processing,     \* batch run: the promises checkHot collects, one per processed post
    summary,        \* batch run: the 'unanswered' wiki page and how far checkHot has come
    reported        \* batch run: the promises and approvals of checkReported

classifyVars == <<snooComment, ouijaComment>>
dedupVars == <<siblings, handled, dupHandler>>
policyVars == <<threshold, now, query, response>>
platformVars == <<posts, flairWrites, messages>>
batchVars == <<processing, summary, reported>>

vars == <<classifyVars, dedupVars, policyVars, platformVars, removals, batchVars>>

\* ------------------------------------------------------------------------
\* Strings

Min(S) == CHOOSE x \in S : \A y \in S : x <= y

RECURSIVE Flatten(_)
Flatten(ss) == IF ss = <<>> THEN <<>> ELSE Head(ss) \o Flatten(Tail(ss))

RECURSIVE SeqsUpTo(_, _)
SeqsUpTo(S, n) ==
    IF n = 0 THEN {<<>>}
    ELSE LET shorter == SeqsUpTo(S, n - 1)
         IN  shorter \cup {Append(s, c) : s \in shorter, c \in S}

LowerLetters == <<"a", "b", "d", "e", "g", "h", "i", "l", "m", "o", "s", "t", "y">>
UpperLetters == <<"A", "B", "D", "E", "G", "H", "I", "L", "M", "O", "S", "T", "Y">>
Digits == <<"0", "1", "2", "3", "4", "5", "6", "7", "8", "9">>

Range(s) == {s[i] : i \in DOMAIN s}

\* \w of a JavaScript regular expression: [A-Za-z0-9_]
IsWordChar(c) == c \in Range(LowerLetters) \cup Range(UpperLetters) \cup Range(Digits) \cup {"_"}

\* String.prototype.toUpperCase, symbol by symbol; the sharp s becomes "SS"
UpperOf(c) ==
    IF c \in Range(LowerLetters)
    THEN <<UpperLetters[CHOOSE i \in DOMAIN LowerLetters : LowerLetters[i] = c]>>
    ELSE IF c = "<sz>" THEN <<"S", "S">>
    ELSE <<c>>

toUpperCase(s) == Flatten([i \in DOMAIN s |-> UpperOf(s[i])])

\* countSymbols: Array.from(string).length, one per code point
countSymbols(string) == Len(string)

\* body.replace(link, '$1') with link = /\[(.*?)\]\(.*?\)/g : every leftmost
\* "[text](target)" is replaced by its text; both groups are lazy
RECURSIVE StripLinksFrom(_, _)
StripLinksFrom(s, i) ==
    IF i > Len(s) THEN <<>>
    ELSE LET closes == {j \in (i + 1)..(Len(s) - 2) :
                            /\ s[j] = "]"
                            /\ s[j + 1] = "("
                            /\ \E k \in (j + 2)..Len(s) : s[k] = ")"}
         IN  IF s[i] = "[" /\ closes # {}
             THEN LET j == Min(closes)
                      k == Min({k \in (j + 2)..Len(s) : s[k] = ")"})
                  IN  SubSeq(s, i + 1, j - 1) \o StripLinksFrom(s, k + 1)
             ELSE <<s[i]>> \o StripLinksFrom(s, i + 1)

StripLinks(s) == StripLinksFrom(s, 1)

\* body.replace('\\', '') : a string pattern replaces the first occurrence only
RemoveFirstBackslash(s) ==
    LET at == {i \in DOMAIN s : s[i] = "\\"}
    IN  IF at = {} THEN s
        ELSE SubSeq(s, 1, Min(at) - 1) \o SubSeq(s, Min(at) + 1, Len(s))

RECURSIVE TrimLeft(_)
TrimLeft(s) == IF s # <<>> /\ Head(s) = " " THEN TrimLeft(Tail(s)) ELSE s

RECURSIVE TrimRight(_)
TrimRight(s) ==
    IF s # <<>> /\ s[Len(s)] = " " THEN TrimRight(SubSeq(s, 1, Len(s) - 1)) ELSE s

Trim(s) == TrimRight(TrimLeft(s))

\* body.replace(/\W/g, '')
RECURSIVE StripNonWord(_)
StripNonWord(s) ==
    IF s = <<>> THEN <<>>
    ELSE (IF IsWordChar(Head(s)) THEN <<Head(s)>> ELSE <<>>) \o StripNonWord(Tail(s))

Deleted == <<"[", "d", "e", "l", "e", "t", "e", "d", "]">>

\* OuijaComment.parseBody
parseBody(body) ==
    IF body = Deleted THEN <<"*">>
    ELSE LET unlinked == StripLinks(body)
             trimmed == Trim(RemoveFirstBackslash(unlinked))
             stripped == IF countSymbols(trimmed) > 1 THEN StripNonWord(trimmed) ELSE trimmed
         IN  IF stripped = <<"<sz>">> THEN stripped ELSE toUpperCase(stripped)

\* goodbyeRegex = /^GOODBYE/
Goodbye == <<"G", "O", "O", "D", "B", "Y", "E">>

goodbyeRegexTest(s) == Len(s) >= Len(Goodbye) /\ SubSeq(s, 1, Len(Goodbye)) = Goodbye

\* ------------------------------------------------------------------------
\* OuijaComment

Letter == "letter"
GoodbyeType == "goodbye"
Invalid == "invalid"

\* A comment object of the platform (snoowrap); replies holds the ids of its
\* child comments in platform order, banned_by is null (<<>>) or the remover
SnooComment(id, body, author, created_utc, score, banned_by, replies) ==
    [id |-> id, body |-> body, author |-> author, created_utc |-> created_utc,
     score |-> score, banned_by |-> banned_by, replies |-> replies]

\* The type decision of the constructor, with the banned check left out
TypeOfIgnoringBan(comment, body) ==
    IF countSymbols(body) = 1 THEN Letter
    ELSE IF goodbyeRegexTest(body) THEN GoodbyeType
    ELSE Invalid

\* The type decision of the OuijaComment constructor
TypeOf(comment, body) ==
    IF comment.banned_by # <<>> THEN Invalid
    ELSE IF countSymbols(body) = 1 THEN Letter
    ELSE IF goodbyeRegexTest(body) THEN GoodbyeType
    ELSE Invalid

\* new OuijaComment(comment): the fields the constructor sets on the target
OuijaComment(comment) ==
    LET body == parseBody(comment.body)
    IN  [snooObj |-> comment,
         body |-> body,
         removed |-> comment.banned_by # <<>>,
         type |-> TypeOf(comment, body)]

\* The Proxy the constructor returns: get is target[prop] || comment[prop], so an
\* empty (falsy) normalized body falls back to the platform comment's raw body
ProxyBody(c) == IF c.body # <<>> THEN c.body ELSE c.snooObj.body

\* OuijaComment.created
Created(c) == c.snooObj.created_utc

\* OuijaComment.hasReplies
hasReplies(c) == Len(c.snooObj.replies) > 0

\* OuijaComment.remove: nothing is sent for a comment already removed
remove(log, c, reason) ==
    Append(log, [id |-> c.snooObj.id, reason |-> reason, sent |-> ~c.removed])

\* ------------------------------------------------------------------------
\* CommentDuplicateHandler

EmptyMap == [k \in {} |-> 0]

\* handle that never asks whether a comment has replies: the later of two
\* duplicates is removed
handleIgnoringReplies(comments, log, comment) ==
    LET key == ProxyBody(comment)
    IN  IF key \in DOMAIN comments
        THEN IF Created(comment) > Created(comments[key])
             THEN [comments |-> comments,
                   removals |-> remove(log, comment, "duplicate")]
             ELSE [comments |-> [comments EXCEPT ![key] = comment],
                   removals |-> remove(log, comments[key], "duplicate")]
        ELSE [comments |-> (key :> comment) @@ comments, removals |-> log]

\* handle without its second branch: a duplicate is removed only when it is
\* the later, childless one of the two
handleLaterOnly(comments, log, comment) ==
    LET key == ProxyBody(comment)
    IN  IF key \in DOMAIN comments
        THEN IF Created(comment) > Created(comments[key]) /\ ~hasReplies(comment)
             THEN [comments |-> comments,
                   removals |-> remove(log, comment, "duplicate")]
             ELSE [comments |-> comments, removals |-> log]
        ELSE [comments |-> (key :> comment) @@ comments, removals |-> log]

\* CommentDuplicateHandler.handle, on the handler's map this.comments and the
\* removal log
handle(comments, log, comment) ==
    LET key == ProxyBody(comment)
    IN  IF key \in DOMAIN comments
        THEN LET existing == comments[key]
             IN  IF Created(comment) > Created(existing) /\ ~hasReplies(comment)
                 THEN [comments |-> comments,
                       removals |-> remove(log, comment, "duplicate")]
                 ELSE IF ~hasReplies(existing)
                 THEN [comments |-> [comments EXCEPT ![key] = comment],
                       removals |-> remove(log, existing, "duplicate")]
                 ELSE [comments |-> comments, removals |-> log]
        ELSE [comments |-> (key :> comment) @@ comments, removals |-> log]

\* ------------------------------------------------------------------------
\* Numbers and configuration

RECURSIVE DecimalValue(_)
DecimalValue(s) ==
    IF s = <<>> THEN 0
    ELSE 10 * DecimalValue(SubSeq(s, 1, Len(s) - 1))
         + (CHOOSE d \in 0..9 : Digits[d + 1] = s[Len(s)])

IsDigits(s) == \A i \in DOMAIN s : s[i] \in Range(Digits)

NaN == [nan |-> TRUE, n |-> 0]

\* ToNumber of a value that came out of parseConfig (a \w+ token of decimal
\* digits or of letters) or of the environment; undefined is NaN
ToNumber(opt) ==
    IF opt # <<>> /\ opt[1] # <<>> /\ IsDigits(opt[1])
    THEN [nan |-> FALSE, n |-> DecimalValue(opt[1])]
    ELSE NaN

\* number >= value and number < value of JavaScript: false when the value
\* converts to NaN
JsGeq(n, opt) == ~ToNumber(opt).nan /\ n >= ToNumber(opt).n
JsLt(n, opt) == ~ToNumber(opt).nan /\ n < ToNumber(opt).n

\* a value used as a condition: undefined and '' are falsy
Truthy(opt) == opt # <<>> /\ opt[1] # <<>>

\* parseConfig: input is the submission's selftext, given as the successive
\* matches <<key, value>> of /(\w+)\s*:\s*(\w+)/g; a later match of a key
\* overwrites an earlier one
RECURSIVE parseConfig(_)
parseConfig(input) ==
    IF input = <<>> THEN EmptyMap
    ELSE LET last == input[Len(input)]
         IN  (last[1] :> last[2]) @@ parseConfig(SubSeq(input, 1, Len(input) - 1))

\* config.<key>: undefined when the key was never matched
ConfigGet(config, key) == IF key \in DOMAIN config THEN <<config[key]>> ELSE <<>>

\* moment.duration('PT' + time.toUpperCase()), in seconds: the ISO 8601 time
\* part nH nM nS, each unit optional, in this order; a string that does not
\* parse is a duration of zero
LeadingDigits(s) ==
    IF \A i \in DOMAIN s : s[i] \in Range(Digits) THEN Len(s)
    ELSE Min({i \in DOMAIN s : s[i] \notin Range(Digits)}) - 1

IsoUnit(s, unit) ==
    LET n == LeadingDigits(s)
    IN  IF n < Len(s) /\ s[n + 1] = unit
        THEN [value |-> DecimalValue(SubSeq(s, 1, n)), rest |-> SubSeq(s, n + 2, Len(s))]
        ELSE [value |-> 0, rest |-> s]

durationSeconds(time) ==
    LET h == IsoUnit(toUpperCase(time), "H")
        m == IsoUnit(h.rest, "M")
        sec == IsoUnit(m.rest, "S")
    IN  IF sec.rest = <<>> THEN 3600 * h.value + 60 * m.value + sec.value ELSE 0

\* ------------------------------------------------------------------------
\* OuijaQuery: the resolution policy

\* /\[meta\]/i.test(title)
MetaTag == <<"[", "M", "E", "T", "A", "]">>

isMetaTitle(title) ==
    \E i \in 1..(Len(title) - 5) : toUpperCase(SubSeq(title, i, i + 5)) = MetaTag

\* new OuijaQuery(post)
OuijaQuery(post) ==
    [post |-> post,
     config |-> parseConfig(post.selftext),
     responses |-> [complete |-> <<>>, incomplete |-> <<>>],
     answered |-> FALSE,
     isMeta |-> isMetaTitle(post.title),
     isModPost |-> post.distinguished = <<"moderator">>]

\* getTopCompletedResponse that lets a later response of equal score win
getTopCompletedResponseLast(complete) ==
    IF complete = <<>> THEN <<>>
    ELSE LET i == CHOOSE i \in DOMAIN complete :
                    /\ \A j \in DOMAIN complete :
                           complete[j].goodbye.snooObj.score <= complete[i].goodbye.snooObj.score
                    /\ \A j \in DOMAIN complete :
                           j > i => complete[j].goodbye.snooObj.score
                                        < complete[i].goodbye.snooObj.score
         IN  <<complete[i]>>

\* OuijaQuery.getTopCompletedResponse: the forEach keeps top unless a later
\* response has a strictly greater goodbye score
RECURSIVE TopOf(_, _, _)
TopOf(complete, i, top) ==
    IF i > Len(complete) THEN top
    ELSE IF top = <<>>
            \/ complete[i].goodbye.snooObj.score > top[1].goodbye.snooObj.score
         THEN TopOf(complete, i + 1, <<complete[i]>>)
         ELSE TopOf(complete, i + 1, top)

getTopCompletedResponse(complete) == TopOf(complete, 1, <<>>)

\* OuijaQuery.threshold
Threshold(q, env) ==
    IF Truthy(ConfigGet(q.config, "minscore"))
    THEN ConfigGet(q.config, "minscore")
    ELSE env

\* OuijaQuery.hasTimeLeft
hasTimeLeft(q, clock) ==
    IF ~Truthy(ConfigGet(q.config, "time")) THEN FALSE
    ELSE clock < q.post.created_utc + durationSeconds(q.config["time"])

\* getResponse without its first line
getResponseIgnoringTime(q, clock, env) ==
    LET topResponse == getTopCompletedResponse(q.responses.complete)
    IN  IF topResponse # <<>>
           /\ JsGeq(topResponse[1].goodbye.snooObj.score, Threshold(q, env))
        THEN topResponse
        ELSE <<>>

\* OuijaQuery.getResponse: null is <<>>
getResponse(q, clock, env) ==
    IF hasTimeLeft(q, clock) THEN <<>>
    ELSE LET topResponse == getTopCompletedResponse(q.responses.complete)
         IN  IF topResponse # <<>>
                /\ JsGeq(topResponse[1].goodbye.snooObj.score, Threshold(q, env))
             THEN topResponse
             ELSE <<>>

\* A submission of the platform; selftext as parseConfig reads it, comments the
\* ids of the top-level comments and tree the comments by id
Submission(id, title, selftext, created_utc, author, distinguished, flair, comments, tree) ==
    [id |-> id, title |-> title, selftext |-> selftext, created_utc |-> created_utc,
     author |-> author, distinguished |-> distinguished, link_flair_text |-> flair,
     comments |-> comments, tree |-> tree]

\* ------------------------------------------------------------------------
\* OuijaQuery: the sequence collector

\* a Goodbye case that never looks at config.minletters
belowMinLettersNever(q, letters) == FALSE

\* if (this.config.minletters && letters.length < this.config.minletters)
belowMinLetters(q, letters) ==
    /\ Truthy(ConfigGet(q.config, "minletters"))
    /\ JsLt(Len(letters), ConfigGet(q.config, "minletters"))

\* letters.concat(comment.body) with the letter in front instead of behind
concatInFront(letters, body) == <<body>> \o letters

\* letters.concat(comment.body): a new array, the body appended as one element
concat(letters, body) == Append(letters, body)

\* a loop over the replies that recurses into self-replies as into any reply
isSelfReplyNever(reply, comment) == FALSE

\* reply.author.name === comment.author.name
isSelfReply(reply, comment) == reply.snooObj.author = comment.snooObj.author

\* What a loop over comments carries: its CommentDuplicateHandler, its
\* hasChildren flag, and the responses and removal log so far (st)
LoopStart(st) == [dup |-> EmptyMap, hasChildren |-> FALSE, st |-> st]

\* The loop after collectResponses has returned r and dupHandler.handle h
afterHandle(loop, r, h) ==
    [dup |-> h.comments,
     hasChildren |-> loop.hasChildren \/ r.result,
     st |-> [r.st EXCEPT !.removals = h.removals]]

\* if (this.collectResponses(reply, letters)) hasChildren = true;
\* dupHandler.handle(reply);
afterCollect(loop, comment, r) ==
    afterHandle(loop, r, handle(loop.dup, r.st.removals, comment))

RECURSIVE collectResponses(_, _, _, _)
RECURSIVE RepliesLoop(_, _, _, _, _)

\* One turn of the for loop of the Letter case
ReplyStep(q, comment, letters, reply, loop) ==
    IF isSelfReply(reply, comment)
    THEN [loop EXCEPT !.st.removals = remove(@, reply, "self-reply")]
    ELSE afterCollect(loop, reply, collectResponses(q, reply, letters, loop.st))

\* The for loop of the Letter case over comment.replies(), from position i
RepliesLoop(q, comment, letters, i, loop) ==
    IF i > Len(comment.snooObj.replies) THEN loop
    ELSE RepliesLoop(q, comment, letters, i + 1,
             ReplyStep(q, comment, letters,
                       OuijaComment(q.post.tree[comment.snooObj.replies[i]]), loop))

\* A Letter case that records the comment as incomplete whatever its replies
afterRepliesAlways(comment, letters, loop) ==
    [result |-> TRUE,
     st |-> [loop.st EXCEPT !.incomplete =
                Append(@, [letters |-> letters, lastComment |-> comment])]]

\* if (!hasChildren) this.responses.incomplete.push(...); return true;
afterReplies(comment, letters, loop) ==
    [result |-> TRUE,
     st |-> IF ~loop.hasChildren
            THEN [loop.st EXCEPT !.incomplete =
                     Append(@, [letters |-> letters, lastComment |-> comment])]
            ELSE loop.st]

\* The Letter case once letters holds the comment's own letter
LetterCase(q, comment, letters, st) ==
    afterReplies(comment, letters, RepliesLoop(q, comment, letters, 1, LoopStart(st)))

\* OuijaQuery.collectResponses
collectResponses(q, comment, letters, st) ==
    CASE comment.type = Invalid ->
            [result |-> FALSE,
             st |-> [st EXCEPT !.removals = remove(@, comment, "invalid")]]
      [] comment.type = GoodbyeType ->
            IF belowMinLetters(q, letters)
            THEN [result |-> FALSE, st |-> st]
            ELSE [result |-> TRUE,
                  st |-> [st EXCEPT !.complete =
                             Append(@, [letters |-> letters, goodbye |-> comment])]]
      [] comment.type = Letter ->
            LetterCase(q, comment, concat(letters, ProxyBody(comment)), st)

\* One turn of the for loop of run
RunStep(q, comment, loop) ==
    IF comment.type = Invalid
    THEN IF ~q.isMeta /\ ~q.isModPost
         THEN [loop EXCEPT !.st.removals = remove(@, comment, "invalid")]
         ELSE loop
    ELSE afterCollect(loop, comment, collectResponses(q, comment, <<>>, loop.st))

\* The for loop of run over this.comments(), from position i
RECURSIVE RunLoop(_, _, _)
RunLoop(q, i, loop) ==
    IF i > Len(q.post.comments) THEN loop.st
    ELSE RunLoop(q, i + 1,
             RunStep(q, OuijaComment(q.post.tree[q.post.comments[i]]), loop))

\* if (response) this.answered = true; return response;
afterGetResponse(q, resp, log) ==
    [query |-> [q EXCEPT !.answered = (resp # <<>>)], response |-> resp, removals |-> log]

\* The query with the responses the loop has pushed
withResponses(q, st) ==
    [q EXCEPT !.responses = [complete |-> st.complete, incomplete |-> st.incomplete]]

\* var response = this.getResponse();
afterRunLoop(q, clock, env, log) == afterGetResponse(q, getResponse(q, clock, env), log)

endOfRun(q, clock, env, st) == afterRunLoop(withResponses(q, st), clock, env, st.removals)

\* OuijaQuery.run: the query after the pass, what it returns and the removal log
run(q, clock, env, log) ==
    endOfRun(q, clock, env,
             RunLoop(q, 1, LoopStart([complete |-> <<>>, incomplete |-> <<>>,
                                      removals |-> log])))

\* ------------------------------------------------------------------------
\* runQuery and the flair

OuijaSays == <<"O", "u", "i", "j", "a", " ", "s", "a", "y", "s", ":", " ">>
Ellipsis == <<".", ".", ".">>
Unanswered == <<"u", "n", "a", "n", "s", "w", "e", "r", "e", "d">>

\* a string as UTF-16 code units: an emoji takes two
RECURSIVE CodeUnits(_)
CodeUnits(s) ==
    IF s = <<>> THEN <<>>
    ELSE (IF Head(s) = "<emoji>" THEN <<"<high>", "<low>">> ELSE <<Head(s)>>)
         \o CodeUnits(Tail(s))

\* 'Ouija says: ' + letters.join(''), cut to 61 code units and '...' when
\* longer than 64
flairText(letters) ==
    LET text == CodeUnits(OuijaSays \o Flatten(letters))
    IN  IF Len(text) > 64 THEN SubSeq(text, 1, 61) \o Ellipsis ELSE text

\* notifyUser
notifyUser(post, resp) ==
    [to |-> post.author, post |-> post.id, answer |-> Flatten(resp.letters),
     goodbye |-> resp.goodbye.snooObj.id]

\* updatePostFlair that never compares with the flair the post carries
updatePostFlairAlways(post, resp) ==
    [flairWrites |-> <<[post |-> post.id, text |-> flairText(resp.letters),
                        css_class |-> "ouija-result"]>>,
     messages |-> <<notifyUser(post, resp)>>]

\* updatePostFlair: the flair writes and the messages it adds
updatePostFlair(post, resp) ==
    LET text == flairText(resp.letters)
    IN  IF post.link_flair_text = <<text>>
        THEN [flairWrites |-> <<>>, messages |-> <<>>]
        ELSE [flairWrites |-> <<[post |-> post.id, text |-> text,
                                 css_class |-> "ouija-result"]>>,
              messages |-> <<notifyUser(post, resp)>>]

\* runQuery that marks a post without a response whatever flair it carries
flairEffectsAlways(post, resp) ==
    IF resp # <<>> THEN updatePostFlair(post, resp[1])
    ELSE [flairWrites |-> <<[post |-> post.id, text |-> Unanswered,
                             css_class |-> "unanswered"]>>,
          messages |-> <<>>]

\* The branch of runQuery on the response
flairEffects(post, resp) ==
    IF resp # <<>> THEN updatePostFlair(post, resp[1])
    ELSE IF post.link_flair_text # <<Unanswered>>
    THEN [flairWrites |-> <<[post |-> post.id, text |-> Unanswered,
                             css_class |-> "unanswered"]>>,
          messages |-> <<>>]
    ELSE [flairWrites |-> <<>>, messages |-> <<>>]

withEffects(ran, effects) ==
    [query |-> ran.query, response |-> ran.response, removals |-> ran.removals,
     flairWrites |-> effects.flairWrites, messages |-> effects.messages]

afterRun(post, ran) == withEffects(ran, flairEffects(post, ran.response))

\* runQuery: the query it returns and its effects on the platform
runQuery(post, clock, env, log) == afterRun(post, run(OuijaQuery(post), clock, env, log))

NoQuery == [answered |-> FALSE]
NoResponse == [done |-> FALSE]

NoEvaluation ==
    /\ threshold = <<>>
    /\ now = 0
    /\ query = NoQuery
    /\ response = NoResponse

NoComment == [type |-> "none"]

NoConstruction ==
    /\ snooComment = SnooComment(0, <<>>, "u1", 1, 1, <<>>, <<>>)
    /\ ouijaComment = NoComment

NoSiblings ==
    /\ siblings = <<>>
    /\ handled = 0
    /\ dupHandler = EmptyMap

\* checkHot has not run: no promise collected, the wiki page not written
Idle == [state |-> "idle", text |-> <<>>]

\* checkReported has not run
NotListed == [state |-> "idle", tasks |-> <<>>, approved |-> <<>>]

NoBatch ==
    /\ processing = <<>>
    /\ summary = Idle
    /\ reported = NotListed

NoPlatform ==
    /\ posts = <<>>
    /\ flairWrites = <<>>
    /\ messages = <<>>

\* ------------------------------------------------------------------------
\* Classification of one comment

MaxBodyLen == 2

ClassifyAlphabet == {"a", "B", "!", " ", "\\", "<sz>", "<emoji>", "*"}

LongBodies ==
    { <<"g", "o", "o", "d", "b", "y", "e">>,
      <<"G", "o", "o", "d", "b", "y", "e", "!">>,
      <<" ", "g", "o", "o", "d", " ", "b", "y", "e", " ">>,
      <<"g", "o", "o", "d">>,
      <<"a", "g", "o", "o", "d", "b", "y", "e">>,
      Deleted,
      <<"[", "a", "]", "(", "h", "t", ")">>,
      <<"[", "g", "o", "o", "d", "b", "y", "e", "]", "(", ")">>,
      <<"[", "a", "]", "(", "b", ")", "[", "B", "]", "(", ")">>,
      <<"\\", "\\", "a">>,
      <<"!", "a", "!">>,
      <<"<sz>", "<sz>">>,
      <<"h", "i">> }

ClassifyBodies == SeqsUpTo(ClassifyAlphabet, MaxBodyLen) \cup LongBodies

InitClassify ==
    /\ snooComment \in {SnooComment(1, b, "u1", 1, 1, ban, <<>>) :
                            b \in ClassifyBodies, ban \in {<<>>, <<"mod">>}}
    /\ ouijaComment = NoComment
    /\ NoSiblings
    /\ NoEvaluation
    /\ NoPlatform
    /\ NoBatch
    /\ removals = <<>>

\* new OuijaComment(comment)
Construct ==
    /\ ouijaComment = NoComment
    /\ ouijaComment' = OuijaComment(snooComment)
    /\ UNCHANGED <<snooComment, dedupVars, policyVars, platformVars, removals, batchVars>>

NextClassify == Construct

SpecClassify == InitClassify /\ [][NextClassify]_vars

\* ------------------------------------------------------------------------
\* Deduplication of one sibling group

MaxSiblings == 3

SiblingBodies == {<<"a">>, <<"A">>, <<"!", "!">>, <<"?", "?">>}
SiblingTimes == {1, 2}

SiblingComments(n) ==
    {SnooComment(n, b, "u1", t, 1, <<>>, r) :
        b \in SiblingBodies, t \in SiblingTimes, r \in {<<>>, <<100 + n>>}}

RECURSIVE SiblingGroups(_)
SiblingGroups(n) ==
    IF n = 0 THEN {<<>>}
    ELSE {Append(g, c) : g \in SiblingGroups(n - 1), c \in SiblingComments(n)}

InitDedup ==
    /\ siblings \in UNION {SiblingGroups(n) : n \in 1..MaxSiblings}
    /\ handled = 0
    /\ dupHandler = EmptyMap
    /\ removals = <<>>
    /\ NoConstruction
    /\ NoEvaluation
    /\ NoPlatform
    /\ NoBatch

\* One pass of the loop over a sibling group: dupHandler.handle(comment)
Handle ==
    /\ handled < Len(siblings)
    /\ LET h == handle(dupHandler, removals, OuijaComment(siblings[handled + 1]))
       IN  /\ dupHandler' = h.comments
           /\ removals' = h.removals
    /\ handled' = handled + 1
    /\ UNCHANGED <<siblings, classifyVars, policyVars, platformVars, batchVars>>

NextDedup == Handle

SpecDedup == InitDedup /\ [][NextDedup]_vars

\* ------------------------------------------------------------------------
\* Claims about classification (SpecClassify)

\* C9: every comment gets exactly one of Letter, Terminator, Invalid, decided
\* in priority order: banned by the platform -> Invalid whatever the body;
\* else a normalized body of exactly one symbol -> Letter; else a normalized
\* body starting with GOODBYE -> Terminator; else Invalid.
C9_ClassificationByPriority ==
    ouijaComment # NoComment =>
        LET body == ouijaComment.body
            banned == snooComment.banned_by # <<>>
            one == Len(body) = 1
            bye == Len(body) >= 7 /\ SubSeq(body, 1, 7) = Goodbye
        IN  /\ ouijaComment.type \in {Letter, GoodbyeType, Invalid}
            /\ body = parseBody(snooComment.body)
            /\ banned => ouijaComment.type = Invalid
            /\ ~banned /\ one => ouijaComment.type = Letter
            /\ ~banned /\ ~one /\ bye => ouijaComment.type = GoodbyeType
            /\ ~banned /\ ~one /\ ~bye => ouijaComment.type = Invalid

\* A banned comment whose body is a single symbol has been classified Invalid
C9_Witness ==
    /\ ouijaComment # NoComment
    /\ snooComment.banned_by # <<>>
    /\ Len(ouijaComment.body) = 1
    /\ ouijaComment.type = Invalid

\* ------------------------------------------------------------------------
\* Claims about deduplication (SpecDedup)

AllHandled == handled = Len(siblings) /\ siblings # <<>>

NormalizedBody(i) == parseBody(siblings[i].body)

\* the key handle files sibling i under
HandleKey(i) == ProxyBody(OuijaComment(siblings[i]))

RemovedAsDuplicate(i) ==
    \E k \in DOMAIN removals :
        removals[k].id = siblings[i].id /\ removals[k].reason = "duplicate"

Childless(i) == Len(siblings[i].replies) = 0

Retained(i) ==
    \E key \in DOMAIN dupHandler : dupHandler[key].snooObj.id = siblings[i].id

C4_EarlierRetained ==
    AllHandled =>
        \A i, j \in DOMAIN siblings :
            /\ i # j
            /\ NormalizedBody(i) = NormalizedBody(j)
            /\ \A k \in DOMAIN siblings \ {i, j} : NormalizedBody(k) # NormalizedBody(i)
            /\ Childless(i) /\ Childless(j)
            /\ siblings[i].created_utc < siblings[j].created_utc
            => /\ RemovedAsDuplicate(j)
               /\ ~RemovedAsDuplicate(i)
               /\ Retained(i)

\* ------------------------------------------------------------------------
\* The resolution policy on its own: getResponse on collected responses

MaxComplete == 2

Scores == {5, 9, 12}
GoodbyeBody == <<"g", "o", "o", "d", "b", "y", "e">>

RECURSIVE CompleteLists(_)
CompleteLists(n) ==
    IF n = 0 THEN {<<>>}
    ELSE {Append(l, [letters |-> <<<<"A">>>>,
                     goodbye |-> OuijaComment(
                         SnooComment(n, GoodbyeBody, "u1", 1, sc, <<>>, <<>>))]) :
             l \in CompleteLists(n - 1), sc \in Scores}

MinScoreTexts == {<<>>, <<<<"minscore", <<"8">>>>>>, <<<<"minscore", <<"1", "0">>>>>>,
                  <<<<"minscore", <<"h", "i">>>>>>,
                  <<<<"minscore", <<"1", "0">>>>, <<"minscore", <<"8">>>>>>}
TimeTexts == {<<>>, <<<<"time", <<"1", "h">>>>>>, <<<<"time", <<"2", "M">>>>>>,
              <<<<"time", <<"9", "0">>>>>>, <<<<"Time", <<"1", "h">>>>>>,
              <<<<"time", <<"1", "h", "2", "m", "5", "s">>>>>>}
Thresholds == {<<>>, <<<<"1", "0">>>>, <<<<"8">>>>}
PostCreatedTimes == {1000}
ClockOffsets == {0, 89, 119, 120, 3599, 3600, 3724, 3725}

InitResolve ==
    /\ threshold \in Thresholds
    /\ \E ms \in MinScoreTexts, tm \in TimeTexts, created \in PostCreatedTimes,
          complete \in UNION {CompleteLists(n) : n \in 0..MaxComplete} :
          /\ now \in {created + d : d \in ClockOffsets}
          /\ query = [OuijaQuery(Submission(1, <<"q">>, ms \o tm, created, "op",
                                            <<>>, <<>>, <<>>, EmptyMap))
                         EXCEPT !.responses.complete = complete]
    /\ response = NoResponse
    /\ NoConstruction
    /\ NoSiblings
    /\ NoPlatform
    /\ NoBatch
    /\ removals = <<>>

\* this.getResponse() on the collected responses
Resolve ==
    /\ ~response.done
    /\ response' = [done |-> TRUE, value |-> getResponse(query, now, threshold)]
    /\ UNCHANGED <<threshold, now, query>>
    /\ UNCHANGED <<classifyVars, dedupVars, platformVars, removals, batchVars>>

NextResolve == Resolve

SpecResolve == InitResolve /\ [][NextResolve]_vars

\* ------------------------------------------------------------------------
\* Claims about the resolution policy (SpecResolve)

\* the wait the submission configures, in seconds, as the submission's author
\* wrote it (<<>> when none is configured)
ConfiguredWait ==
    LET time == ConfigGet(query.config, "time")
    IN  IF time = <<>> THEN <<>>
        ELSE IF time[1] = <<"1", "h">> THEN <<3600>>
        ELSE IF time[1] = <<"2", "M">> THEN <<120>>
        ELSE IF time[1] = <<"1", "h", "2", "m", "5", "s">> THEN <<3725>>
        ELSE <<0>>

TimePending ==
    ConfiguredWait # <<>> /\ now < query.post.created_utc + ConfiguredWait[1]

\* the effective threshold: the configured minimum score if present, else the
\* global default
EffectiveThreshold ==
    IF ConfigGet(query.config, "minscore") # <<>>
    THEN ConfigGet(query.config, "minscore")
    ELSE threshold

ScoreOf(r) == r.goodbye.snooObj.score

Qualifies(r) == JsGeq(ScoreOf(r), EffectiveThreshold)

\* C1: getResponse returns no winner whenever a wait is configured and the
\* clock is before creation time + wait, whatever the scores; with no wait
\* configured hasTimeLeft is false and the outcome depends on the scores alone.
C1_PendingWhileTimeLeft ==
    response.done =>
        /\ TimePending => response.value = <<>>
        /\ ConfiguredWait = <<>> =>
               /\ ~hasTimeLeft(query, now)
               /\ response.value = <<>> <=>
                      \A i \in DOMAIN query.responses.complete :
                          ~Qualifies(query.responses.complete[i])

\* getResponse was called before the wait had elapsed on a list holding a
\* response that meets the threshold
C1_Witness ==
    /\ response.done
    /\ TimePending
    /\ \E i \in DOMAIN query.responses.complete : Qualifies(query.responses.complete[i])
    /\ response.value = <<>>

\* C2: when the evaluation is not pending, the winner is the first response
\* in traversal order whose goodbye score is the maximum over the list,
\* provided that score is >= the effective threshold; otherwise there is no
\* winner.  With scores 5 and 9, threshold 8 yields the response scored 9 and
\* threshold 10 yields none.
C2_FirstMaxAboveThreshold ==
    response.done /\ ~TimePending =>
        LET complete == query.responses.complete
            IsFirstMax(i) ==
                /\ \A j \in DOMAIN complete : ScoreOf(complete[j]) <= ScoreOf(complete[i])
                /\ \A j \in 1..(i - 1) : ScoreOf(complete[j]) < ScoreOf(complete[i])
        IN  /\ \A i \in DOMAIN complete :
                   IsFirstMax(i) /\ Qualifies(complete[i]) => response.value = <<complete[i]>>
            /\ (\A i \in DOMAIN complete : ~Qualifies(complete[i])) => response.value = <<>>
            /\ Len(complete) = 2 /\ ScoreOf(complete[1]) = 5 /\ ScoreOf(complete[2]) = 9 =>
                   /\ EffectiveThreshold = <<<<"8">>>> => response.value = <<complete[2]>>
                   /\ EffectiveThreshold = <<<<"1", "0">>>> => response.value = <<>>

\* getResponse picked the first of two responses that share the top score
C2_Witness ==
    /\ response.done
    /\ ~TimePending
    /\ Len(query.responses.complete) = 2
    /\ ScoreOf(query.responses.complete[1]) = ScoreOf(query.responses.complete[2])
    /\ response.value = <<query.responses.complete[1]>>

\* ------------------------------------------------------------------------
\* Single-submission mode: processPost on one fetched submission

MaxComments == 3

\* a reaches i by following parents upward, or is i
RECURSIVE IsAncestorOrSelf(_, _, _)
IsAncestorOrSelf(parent, a, i) ==
    a = i \/ (parent[i] # 0 /\ IsAncestorOrSelf(parent, a, parent[i]))

\* Comment trees of n comments numbered in reading order: 0 is the submission
TreeShapes(n) ==
    {parent \in [1..n -> 0..(n - 1)] :
        /\ parent[1] = 0
        /\ \A i \in 2..n : parent[i] = 0 \/ IsAncestorOrSelf(parent, parent[i], i - 1)}

RepliesTo(parent, n, p) == SelectSeq([i \in 1..n |-> i], LAMBDA j : parent[j] = p)

CommentBodies == {<<"a">>, <<"b">>, <<"h", "i">>, GoodbyeBody}
Authors == {"u1", "u2"}

\* What sets one tree apart from the plain one: a comment a moderator has
\* removed, a Goodbye of low score (the one score the program reads), or
\* replies listed newest first
TreeVariants(n, body) ==
    {[kind |-> "plain", at |-> 0], [kind |-> "newestFirst", at |-> 0]}
    \cup {[kind |-> "banned", at |-> i] : i \in 1..n}
    \cup {[kind |-> "lowScore", at |-> i] : i \in {j \in 1..n : body[j] = GoodbyeBody}}

CommentTree(n, parent, body, author, variant) ==
    [i \in 1..n |->
        SnooComment(i, body[i], author[i],
                    IF variant.kind = "newestFirst" THEN 10 + n - i ELSE 10 + i,
                    IF variant = [kind |-> "lowScore", at |-> i] THEN 5 ELSE 12,
                    IF variant = [kind |-> "banned", at |-> i] THEN <<"mod">> ELSE <<>>,
                    RepliesTo(parent, n, i))]

\* Authors matter only as equal to or different from the parent's: the
\* top-level comments are all by the first one
TreeAuthors(n, parent) ==
    {a \in [1..n -> Authors] : \A i \in 1..n : parent[i] = 0 => a[i] = "u1"}

PostKinds ==
    {[title |-> <<"q">>, selftext |-> <<>>, distinguished |-> <<>>],
     [title |-> <<"[", "M", "e", "t", "a", "]", "q">>, selftext |-> <<>>,
      distinguished |-> <<>>],
     [title |-> <<"q">>, selftext |-> <<>>, distinguished |-> <<"moderator">>],
     [title |-> <<"q">>, selftext |-> <<<<"minletters", <<"2">>>>>>,
      distinguished |-> <<>>]}

InitQuery ==
    /\ threshold = <<<<"1", "0">>>>
    /\ \E created \in PostCreatedTimes : now = created
    /\ \E kind \in PostKinds, n \in 1..MaxComments :
          \E parent \in TreeShapes(n), body \in [1..n -> CommentBodies] :
          \E author \in TreeAuthors(n, parent), variant \in TreeVariants(n, body) :
              posts = <<Submission(1, kind.title, kind.selftext, now, "op",
                                   kind.distinguished, <<>>, RepliesTo(parent, n, 0),
                                   CommentTree(n, parent, body, author, variant))>>
    /\ query = NoQuery
    /\ response = NoResponse
    /\ NoConstruction
    /\ NoSiblings
    /\ NoBatch
    /\ removals = <<>>
    /\ flairWrites = <<>>
    /\ messages = <<>>

\* The state once runQuery has returned
Returned(ran) ==
    /\ query' = ran.query
    /\ response' = [done |-> TRUE, value |-> ran.response]
    /\ removals' = ran.removals
    /\ flairWrites' = flairWrites \o ran.flairWrites
    /\ messages' = messages \o ran.messages

\* post.expand_replies().then(runQuery)
RunQuery ==
    /\ ~response.done
    /\ Returned(runQuery(posts[1], now, threshold, removals))
    /\ UNCHANGED <<threshold, now, posts>>
    /\ UNCHANGED <<classifyVars, dedupVars, batchVars>>

NextQuery == RunQuery

SpecQuery == InitQuery /\ [][NextQuery]_vars

\* ------------------------------------------------------------------------
\* The batch run: checkHot, processPost for each unanswered post, and
\* processPending once every post has been processed

\* isUnanswered
isUnanswered(post) ==
    \/ post.link_flair_text = <<>>
    \/ post.link_flair_text = <<<<>>>>
    \/ post.link_flair_text = <<Unanswered>>

\* The promise processPost returns for the post at position i of the listing
Fetching(i) == [post |-> i, state |-> "fetching", query |-> NoQuery]

\* hot.forEach(post => { if (isUnanswered(post)) processing.push(...) })
RECURSIVE pushUnanswered(_, _)
pushUnanswered(listing, i) ==
    IF i > Len(listing) THEN <<>>
    ELSE (IF isUnanswered(listing[i]) THEN <<Fetching(i)>> ELSE <<>>)
         \o pushUnanswered(listing, i + 1)

Blank == <<"[", "b", "l", "a", "n", "k", "]">>

\* pending.letters.join('') || '[blank]'
answerOrBlank(letters) == IF Flatten(letters) = <<>> THEN Blank ELSE Flatten(letters)

\* createPendingWikiMarkdown: one row per complete response
createPendingWikiMarkdown(q) ==
    [k \in DOMAIN q.responses.complete |->
        [answer |-> answerOrBlank(q.responses.complete[k].letters),
         comment |-> q.responses.complete[k].goodbye.snooObj.id,
         score |-> q.responses.complete[k].goodbye.snooObj.score]]

\* createIncompleteWikiMarkdown: one row per incomplete response
createIncompleteWikiMarkdown(q) ==
    [k \in DOMAIN q.responses.incomplete |->
        [answer |-> Flatten(q.responses.incomplete[k].letters),
         comment |-> q.responses.incomplete[k].lastComment.snooObj.id]]

\* The heading of one query and its tables; an empty table is left out
summaryOf(q) ==
    [post |-> q.post.id, title |-> q.post.title,
     pending |-> createPendingWikiMarkdown(q),
     incomplete |-> createIncompleteWikiMarkdown(q)]

\* processPending that lists the answered queries as well
RECURSIVE processPendingAll(_)
processPendingAll(queries) ==
    IF queries = <<>> THEN <<>>
    ELSE <<summaryOf(queries[Len(queries)])>>
         \o processPendingAll(SubSeq(queries, 1, Len(queries) - 1))

\* processPending: queries.reverse().forEach(...), answered queries skipped
RECURSIVE processPending(_)
processPending(queries) ==
    IF queries = <<>> THEN <<>>
    ELSE (IF queries[Len(queries)].answered THEN <<>>
          ELSE <<summaryOf(queries[Len(queries)])>>)
         \o processPending(SubSeq(queries, 1, Len(queries) - 1))

MaxPosts == 2

\* A Letter answered by a Goodbye of the given score, and a Letter left open
TreeOf(kind, o) ==
    CASE kind = "empty" -> [top |-> <<>>, tree |-> EmptyMap]
      [] kind = "low" ->
            [top |-> <<o + 1, o + 3>>,
             tree |-> (o + 1 :> SnooComment(o + 1, <<"a">>, "u1", 11, 12, <<>>, <<o + 2>>))
                   @@ (o + 2 :> SnooComment(o + 2, GoodbyeBody, "u2", 12, 5, <<>>, <<>>))
                   @@ (o + 3 :> SnooComment(o + 3, <<"b">>, "u1", 13, 12, <<>>, <<>>))]
      [] kind = "only" ->
            [top |-> <<o + 1>>,
             tree |-> (o + 1 :> SnooComment(o + 1, <<"a">>, "u1", 11, 12, <<>>, <<o + 2>>))
                   @@ (o + 2 :> SnooComment(o + 2, GoodbyeBody, "u2", 12, 5, <<>>, <<>>))]
      [] kind = "high" ->
            [top |-> <<o + 1>>,
             tree |-> (o + 1 :> SnooComment(o + 1, <<"a">>, "u1", 11, 12, <<>>, <<o + 2>>))
                   @@ (o + 2 :> SnooComment(o + 2, GoodbyeBody, "u2", 12, 12, <<>>, <<>>))]

OneHour == <<<<"time", <<"1", "h">>>>>>

\* The submissions of a hot listing: without candidates, with a candidate
\* below or above the threshold, and with a wait of one hour that has or
\* has not elapsed
PostTemplates ==
    {[tree |-> "empty", selftext |-> <<>>, age |-> 10],
     [tree |-> "low", selftext |-> <<>>, age |-> 10],
     [tree |-> "only", selftext |-> <<>>, age |-> 10],
     [tree |-> "high", selftext |-> <<>>, age |-> 10],
     [tree |-> "low", selftext |-> OneHour, age |-> 10],
     [tree |-> "high", selftext |-> OneHour, age |-> 10],
     [tree |-> "high", selftext |-> OneHour, age |-> 3600]}

Flairs == {<<>>, <<Unanswered>>, <<flairText(<<<<"A">>>>)>>}

IncorrectFlair == "Missing or Incorrect Flair"

\* post.user_reports: [reason, count] pairs
UserReports == {<<>>, <<<<IncorrectFlair, 1>>>>, <<<<"Spam", 1>>>>}

HotPost(id, t, flair, clock) ==
    Submission(id, <<"q">>, t.selftext, clock - t.age, "op", <<>>, flair,
               TreeOf(t.tree, 10 * id).top, TreeOf(t.tree, 10 * id).tree)

\* A submission as the listings serve it, with its user_reports
withReports(post, reports) == [user_reports |-> reports] @@ post

RECURSIVE HotListings(_, _)
HotListings(n, clock) ==
    IF n = 0 THEN {<<>>}
    ELSE {Append(l, HotPost(n, t, f, clock)) :
             l \in HotListings(n - 1, clock), t \in PostTemplates, f \in Flairs}

\* The submissions the hot and the reports listings are drawn from
RECURSIVE Listings(_, _)
Listings(n, clock) ==
    IF n = 0 THEN {<<>>}
    ELSE {Append(l, withReports(HotPost(n, t, f, clock), r)) :
             l \in Listings(n - 1, clock), t \in PostTemplates, f \in Flairs,
             r \in UserReports}

\* reportedIncorrectFlair
reportedIncorrectFlair(post) ==
    \E k \in DOMAIN post.user_reports : post.user_reports[k][1] = IncorrectFlair

\* reports.forEach(post => { if (reportedIncorrectFlair(post)) ... }): the
\* positions of the posts processPost and approve are called on
RECURSIVE pushReported(_, _)
pushReported(listing, i) ==
    IF i > Len(listing) THEN <<>>
    ELSE (IF listing[i].user_reports # <<>> /\ reportedIncorrectFlair(listing[i])
          THEN <<Fetching(i)>> ELSE <<>>)
         \o pushReported(listing, i + 1)

InitBatch ==
    /\ threshold = <<<<"1", "0">>>>
    /\ now \in {5000}
    /\ posts \in UNION {HotListings(n, now) : n \in 0..MaxPosts}
    /\ NoBatch
    /\ query = NoQuery
    /\ response = NoResponse
    /\ NoConstruction
    /\ NoSiblings
    /\ removals = <<>>
    /\ flairWrites = <<>>
    /\ messages = <<>>

\* r.get_hot(...).then(hot => ...): the promises are collected and
\* Promise.all waits for them
CheckHot ==
    /\ summary.state = "idle"
    /\ processing' = pushUnanswered(posts, 1)
    /\ summary' = [summary EXCEPT !.state = "waiting"]
    /\ UNCHANGED <<classifyVars, dedupVars, policyVars, platformVars, removals, reported>>

\* The state once runQuery has returned for promise i
Fulfilled(i, ran) ==
    /\ processing' = [processing EXCEPT ![i] = [@ EXCEPT !.state = "fulfilled",
                                                        !.query = ran.query]]
    /\ removals' = ran.removals
    /\ flairWrites' = flairWrites \o ran.flairWrites
    /\ messages' = messages \o ran.messages

\* processPost: post.expand_replies() resolves and runQuery runs
ProcessPost(i) ==
    /\ processing[i].state = "fetching"
    /\ Fulfilled(i, runQuery(posts[processing[i].post], now, threshold, removals))
    /\ UNCHANGED <<classifyVars, dedupVars, policyVars, posts, summary, reported>>

\* processPost: post.expand_replies() rejects, runQuery never runs
ExpandRejected(i) ==
    /\ processing[i].state = "fetching"
    /\ processing' = [processing EXCEPT ![i] = [@ EXCEPT !.state = "rejected"]]
    /\ UNCHANGED <<classifyVars, dedupVars, policyVars, platformVars, removals, summary,
                   reported>>

\* A checkHot that publishes from the promises fulfilled so far, without
\* waiting for the others
ProcessPendingEarly ==
    /\ summary.state = "waiting"
    /\ summary' = [state |-> "published",
                   text |-> processPending(
                       [i \in DOMAIN SelectSeq(processing, LAMBDA t : t.state = "fulfilled") |->
                           SelectSeq(processing, LAMBDA t : t.state = "fulfilled")[i].query])]
    /\ UNCHANGED <<classifyVars, dedupVars, policyVars, platformVars, removals, processing,
                   reported>>

\* Promise.all(processing).then(processPending): every promise fulfilled,
\* the queries in the order of the promises; wiki.edit({ text })
ProcessPending ==
    /\ summary.state = "waiting"
    /\ \A i \in DOMAIN processing : processing[i].state = "fulfilled"
    /\ summary' = [state |-> "published",
                   text |-> processPending([i \in DOMAIN processing |-> processing[i].query])]
    /\ UNCHANGED <<classifyVars, dedupVars, policyVars, platformVars, removals, processing,
                   reported>>

\* Promise.all(processing)...catch(err => console.error(err)): a promise
\* has rejected, processPending never runs
CatchRejected ==
    /\ summary.state = "waiting"
    /\ \E i \in DOMAIN processing : processing[i].state = "rejected"
    /\ summary' = [summary EXCEPT !.state = "failed"]
    /\ UNCHANGED <<classifyVars, dedupVars, policyVars, platformVars, removals, processing,
                   reported>>

\* getReports.then(reports => ...): processPost and post.approve() for
\* every post reported for its flair
CheckReported ==
    /\ reported.state = "idle"
    /\ reported' = [state |-> "listed",
                    tasks |-> pushReported(posts, 1),
                    approved |-> [k \in DOMAIN pushReported(posts, 1) |->
                                     posts[pushReported(posts, 1)[k].post].id]]
    /\ UNCHANGED <<classifyVars, dedupVars, policyVars, platformVars, removals,
                   processing, summary>>

\* The state once runQuery has returned for the reported post of promise j
ReportedFulfilled(j, ran) ==
    /\ reported' = [reported EXCEPT !.tasks[j] = [@ EXCEPT !.state = "fulfilled",
                                                          !.query = ran.query]]
    /\ removals' = ran.removals
    /\ flairWrites' = flairWrites \o ran.flairWrites
    /\ messages' = messages \o ran.messages

\* processPost of checkReported: expand_replies() resolves and runQuery runs
ProcessReported(j) ==
    /\ reported.tasks[j].state = "fetching"
    /\ ReportedFulfilled(j, runQuery(posts[reported.tasks[j].post], now, threshold, removals))
    /\ UNCHANGED <<classifyVars, dedupVars, policyVars, posts, processing, summary>>

\* processPost of checkReported: expand_replies() rejects, nobody catches it
ReportedExpandRejected(j) ==
    /\ reported.tasks[j].state = "fetching"
    /\ reported' = [reported EXCEPT !.tasks[j] = [@ EXCEPT !.state = "rejected"]]
    /\ UNCHANGED <<classifyVars, dedupVars, policyVars, platformVars, removals,
                   processing, summary>>

\* checkHot() on its own
NextBatch ==
    \/ CheckHot
    \/ \E i \in DOMAIN processing : ProcessPost(i)
    \/ \E i \in DOMAIN processing : ExpandRejected(i)
    \/ ProcessPending
    \/ CatchRejected

SpecBatch == InitBatch /\ [][NextBatch]_vars

\* ------------------------------------------------------------------------
\* The whole batch invocation: checkHot(); checkReported();

MaxReportedPosts == 1

InitMain ==
    /\ threshold = <<<<"1", "0">>>>
    /\ now \in {5000}
    /\ posts \in UNION {Listings(n, now) : n \in 0..MaxReportedPosts}
    /\ NoBatch
    /\ query = NoQuery
    /\ response = NoResponse
    /\ NoConstruction
    /\ NoSiblings
    /\ removals = <<>>
    /\ flairWrites = <<>>
    /\ messages = <<>>

NextMain ==
    \/ CheckHot
    \/ \E i \in DOMAIN processing : ProcessPost(i)
    \/ \E i \in DOMAIN processing : ExpandRejected(i)
    \/ ProcessPending
    \/ CatchRejected
    \/ CheckReported
    \/ \E j \in DOMAIN reported.tasks : ProcessReported(j)
    \/ \E j \in DOMAIN reported.tasks : ReportedExpandRejected(j)

SpecMain == InitMain /\ [][NextMain]_vars

\* ------------------------------------------------------------------------
\* Claims about one evaluation pass (SpecQuery)

Evaluated == response.done

Comments == posts[1].tree
CommentIds == DOMAIN Comments
TypeAt(i) == OuijaComment(Comments[i]).type

\* The comment i replies to, 0 for a top-level comment
ParentOf(i) ==
    IF \E p \in CommentIds : i \in Range(Comments[p].replies)
    THEN CHOOSE p \in CommentIds : i \in Range(Comments[p].replies)
    ELSE 0

\* The comments from the top-level one down to i
RECURSIVE PathTo(_)
PathTo(i) == IF i = 0 THEN <<>> ELSE Append(PathTo(ParentOf(i)), i)

SameAuthorAsParent(i) ==
    ParentOf(i) # 0 /\ Comments[i].author = Comments[ParentOf(i)].author

\* The pass reaches i as a reply of a Letter comment it has walked into
RECURSIVE Walked(_)
ReachedAsReply(i) ==
    ParentOf(i) # 0 /\ TypeAt(ParentOf(i)) = Letter /\ Walked(ParentOf(i))

Walked(i) ==
    IF ParentOf(i) = 0 THEN TypeAt(i) # Invalid
    ELSE ReachedAsReply(i) /\ ~SameAuthorAsParent(i)

SelfReply(i) == ReachedAsReply(i) /\ SameAuthorAsParent(i)

RemovalCalls(i, reason) ==
    {k \in DOMAIN removals : removals[k].id = i /\ removals[k].reason = reason}

\* A removal request for i went out to the platform
RemovalSent(i, reason) == \E k \in RemovalCalls(i, reason) : removals[k].sent

IsGoodbyeOfComplete(i) ==
    \E k \in DOMAIN query.responses.complete :
        query.responses.complete[k].goodbye.snooObj.id = i

IsLastOfIncomplete(i) ==
    \E k \in DOMAIN query.responses.incomplete :
        query.responses.incomplete[k].lastComment.snooObj.id = i

\* The normalized bodies of the Letter comments among ids, in order
LettersOf(ids) ==
    [k \in DOMAIN SelectSeq(ids, LAMBDA j : TypeAt(j) = Letter) |->
        parseBody(Comments[SelectSeq(ids, LAMBDA j : TypeAt(j) = Letter)[k]].body)]

MinLettersConfigured == posts[1].selftext = <<<<"minletters", <<"2">>>>>>

\* A Goodbye the pass reaches under fewer letters than the configured two
DroppedGoodbye(i) ==
    /\ MinLettersConfigured
    /\ Walked(i)
    /\ TypeAt(i) = GoodbyeType
    /\ Len(PathTo(i)) - 1 < 2

\* A reply that leaves its parent without a recorded continuation
NoContinuation(r) == SelfReply(r) \/ TypeAt(r) = Invalid \/ DroppedGoodbye(r)

SuppressingPost == isMetaTitle(posts[1].title) \/ posts[1].distinguished = <<"moderator">>

\* C5: on a meta or moderator submission no Invalid comment is removed for
\* being invalid, at the top level or at any depth; on any submission an
\* Invalid comment is not walked into and ends no recorded sequence.
C5_InvalidRemovalSuppressed ==
    Evaluated =>
        \A i \in CommentIds :
            TypeAt(i) = Invalid =>
                /\ SuppressingPost => ~RemovalSent(i, "invalid")
                /\ ~IsGoodbyeOfComplete(i) /\ ~IsLastOfIncomplete(i)
                /\ \A d \in CommentIds :
                      ParentOf(d) = i =>
                          /\ ~IsGoodbyeOfComplete(d) /\ ~IsLastOfIncomplete(d)
                          /\ \A k \in DOMAIN removals : removals[k].id # d

\* C5, the part the code keeps: an Invalid comment is not walked into and
\* ends no recorded sequence, and at the top level of a meta or moderator
\* submission it is not removed.
C5_InvalidNotWalked ==
    Evaluated =>
        \A i \in CommentIds :
            TypeAt(i) = Invalid =>
                /\ (SuppressingPost /\ ParentOf(i) = 0) => RemovalCalls(i, "invalid") = {}
                /\ ~IsGoodbyeOfComplete(i) /\ ~IsLastOfIncomplete(i)
                /\ \A d \in CommentIds :
                      ParentOf(d) = i =>
                          /\ ~IsGoodbyeOfComplete(d) /\ ~IsLastOfIncomplete(d)
                          /\ \A k \in DOMAIN removals : removals[k].id # d

DescendantsOrSelf(i) == {d \in CommentIds : i \in Range(PathTo(d))}

RepliesOf(i) == Range(Comments[i].replies)

\* Every recorded sequence carries the letters of the path to its last comment
LettersFollowPaths ==
    /\ \A k \in DOMAIN query.responses.complete :
          query.responses.complete[k].letters =
              LettersOf(PathTo(query.responses.complete[k].goodbye.snooObj.id))
    /\ \A k \in DOMAIN query.responses.incomplete :
          query.responses.incomplete[k].letters =
              LettersOf(PathTo(query.responses.incomplete[k].lastComment.snooObj.id))

\* C7: a reply by the author of the Letter comment it replies to has its
\* removal triggered, is not walked into, ends no recorded sequence, gives
\* no letter to any recorded sequence, and does not keep its parent from
\* being recorded as incomplete.
C7_SelfRepliesRemoved ==
    Evaluated =>
        \A i \in CommentIds :
            SelfReply(i) =>
                /\ Cardinality(RemovalCalls(i, "self-reply")) = 1
                /\ Comments[i].banned_by = <<>> => RemovalSent(i, "self-reply")
                /\ \A k \in DOMAIN removals :
                      removals[k].id = i => removals[k].reason = "self-reply"
                /\ \A d \in DescendantsOrSelf(i) :
                      /\ ~IsGoodbyeOfComplete(d) /\ ~IsLastOfIncomplete(d)
                      /\ d # i => \A k \in DOMAIN removals : removals[k].id # d
                /\ LettersFollowPaths
                /\ (\A r \in RepliesOf(ParentOf(i)) : NoContinuation(r))
                      => IsLastOfIncomplete(ParentOf(i))

\* A Letter whose only reply is a self-reply Letter that a Goodbye of
\* another author answers: the self-reply is removed, the Letter incomplete
C7_Witness ==
    /\ Evaluated
    /\ \E i, d \in CommentIds :
          /\ SelfReply(i) /\ TypeAt(i) = Letter
          /\ ParentOf(d) = i /\ TypeAt(d) = GoodbyeType
          /\ Comments[d].author # Comments[i].author
          /\ RemovalSent(i, "self-reply")
          /\ RepliesOf(ParentOf(i)) = {i}
          /\ IsLastOfIncomplete(ParentOf(i))
          /\ query.responses.complete = <<>>

\* C8: a Goodbye reached under fewer letters than the configured minimum
\* ends no complete and no incomplete sequence, and its parent is recorded
\* as incomplete when no other reply produced a sequence.
C8_ShortGoodbyeDropped ==
    Evaluated =>
        \A i \in CommentIds :
            DroppedGoodbye(i) =>
                /\ ~IsGoodbyeOfComplete(i)
                /\ ~IsLastOfIncomplete(i)
                /\ (ParentOf(i) # 0 /\ \A r \in RepliesOf(ParentOf(i)) : NoContinuation(r))
                      => IsLastOfIncomplete(ParentOf(i))

\* minletters: 2 and a Goodbye under a single Letter: the Goodbye is
\* dropped, the Letter is recorded as incomplete and there is no winner
C8_Witness ==
    /\ Evaluated
    /\ \E i \in CommentIds :
          /\ DroppedGoodbye(i)
          /\ ParentOf(i) # 0
          /\ Comments[i].score >= 10
          /\ IsLastOfIncomplete(ParentOf(i))
          /\ query.responses.complete = <<>>
          /\ response.value = <<>>

\* The tree is one chain of Letter comments, each reply by another author
\* than its parent, that ends in a Goodbye
SingleChain ==
    LET n == Len(Comments)
    IN  /\ posts[1].comments = <<1>>
        /\ \A i \in 1..(n - 1) :
              /\ Comments[i].replies = <<i + 1>>
              /\ TypeAt(i) = Letter
              /\ Comments[i].author # Comments[i + 1].author
        /\ Comments[n].replies = <<>>
        /\ TypeAt(n) = GoodbyeType

\* C10: with no wait and no minimum-letters configuration, a single chain
\* of Letter comments ending in a Goodbye whose score reaches the threshold
\* gives a winner whose letters are the chain's normalized bodies from the
\* top down, and the query is marked answered.
C10_ChainYieldsWinner ==
    (/\ Evaluated
     /\ posts[1].selftext = <<>>
     /\ SingleChain
     /\ threshold = <<<<"1", "0">>>>
     /\ Comments[Len(Comments)].score >= 10)
        => /\ response.value =
                 <<[letters |-> [k \in 1..(Len(Comments) - 1) |-> parseBody(Comments[k].body)],
                    goodbye |-> OuijaComment(Comments[Len(Comments)])]>>
           /\ query.answered

\* A, B, GOODBYE with score 12 and threshold 10 yields "AB"
C10_Witness ==
    /\ Evaluated
    /\ SingleChain
    /\ posts[1].selftext = <<>>
    /\ Len(Comments) = 3
    /\ Comments[1].body = <<"a">>
    /\ Comments[2].body = <<"b">>
    /\ Comments[3].score = 12
    /\ Flatten(response.value[1].letters) = <<"A", "B">>
    /\ query.answered

\* ------------------------------------------------------------------------
\* Claims about the batch run (SpecBatch)

Published == summary.state = "published"

PostOf(k) == posts[processing[k].post]
QueryOf(k) == processing[k].query

\* The wait of one hour the post configures has not elapsed
TimeLeftFor(p) == p.selftext = OneHour /\ now < p.created_utc + 3600

\* A complete candidate reaches the threshold of ten
QualifyingCandidate(q) ==
    \E j \in DOMAIN q.responses.complete :
        q.responses.complete[j].goodbye.snooObj.score >= 10

PendingTask(k) == TimeLeftFor(PostOf(k))
OpenTask(k) == ~TimeLeftFor(PostOf(k)) /\ ~QualifyingCandidate(QueryOf(k))
WinnerTask(k) == ~TimeLeftFor(PostOf(k)) /\ QualifyingCandidate(QueryOf(k))

Listed(k) == \E e \in Range(summary.text) : e.post = PostOf(k).id

ListedWithCandidates(k) ==
    \E e \in Range(summary.text) :
        /\ e.post = PostOf(k).id
        /\ [j \in DOMAIN e.pending |-> e.pending[j].comment] =
              [j \in DOMAIN QueryOf(k).responses.complete |->
                  QueryOf(k).responses.complete[j].goodbye.snooObj.id]
        /\ [j \in DOMAIN e.incomplete |-> e.incomplete[j].comment] =
              [j \in DOMAIN QueryOf(k).responses.incomplete |->
                  QueryOf(k).responses.incomplete[j].lastComment.snooObj.id]

\* C6 as stated: in the published summary a submission whose wait has not
\* elapsed is not listed, an open one is listed with its complete and
\* incomplete candidates, and one with a winner is not listed.
C6_PendingNotListed ==
    Published =>
        \A k \in DOMAIN processing :
            /\ PendingTask(k) => ~Listed(k)
            /\ OpenTask(k) => ListedWithCandidates(k)
            /\ WinnerTask(k) => ~Listed(k)

\* C6 as the code has it: in the published summary every processed
\* submission without a winner is listed with its complete and incomplete
\* candidates, whether its wait has not elapsed or no candidate reaches the
\* threshold, and one with a winner is not listed.
C6_UnansweredListed ==
    Published =>
        \A k \in DOMAIN processing :
            /\ (PendingTask(k) \/ OpenTask(k)) => ListedWithCandidates(k)
            /\ WinnerTask(k) => ~Listed(k)

\* A published summary of two posts: one waiting with a candidate above
\* the threshold, listed with it, and one with a winner, not listed
C6_Witness ==
    /\ Published
    /\ \E k, w \in DOMAIN processing :
          /\ PendingTask(k) /\ QualifyingCandidate(QueryOf(k))
          /\ ListedWithCandidates(k)
          /\ WinnerTask(w) /\ ~Listed(w)

\* ------------------------------------------------------------------------
\* Claims about the whole batch invocation (SpecMain)

\* The step is the evaluation of the post of promise i of checkHot
HotEvaluated(i) ==
    processing[i].state = "fetching" /\ processing'[i].state = "fulfilled"

\* The step is the evaluation of the post of promise j of checkReported
ReportedEvaluated(j) ==
    reported.tasks[j].state = "fetching" /\ reported'.tasks[j].state = "fulfilled"

\* What the step adds to the logs of assign_flair and compose_message
NewFlairWrites == SubSeq(flairWrites', Len(flairWrites) + 1, Len(flairWrites'))
NewMessages == SubSeq(messages', Len(messages) + 1, Len(messages'))

\* The evaluation of p that collected q has a winner
HasWinner(p, q) == ~TimeLeftFor(p) /\ QualifyingCandidate(q)

UnansweredWrite(p) == [post |-> p.id, text |-> Unanswered, css_class |-> "unanswered"]

\* What C11 says of the evaluation of p that returned q
C11_Evaluation(p, q) ==
    IF HasWinner(p, q)
    THEN \A k \in DOMAIN NewFlairWrites : NewFlairWrites[k].text # Unanswered
    ELSE NewFlairWrites =
            IF p.link_flair_text = <<Unanswered>> THEN <<>> ELSE <<UnansweredWrite(p)>>

\* C11: an evaluation without a winner assigns the flair "unanswered" if
\* and only if the submission does not carry it already; an evaluation
\* with a winner never assigns it.
C11_UnansweredUnlessCarried ==
    [][/\ \A i \in DOMAIN processing :
             HotEvaluated(i) =>
                 C11_Evaluation(posts[processing[i].post], processing'[i].query)
       /\ \A j \in DOMAIN reported.tasks :
             ReportedEvaluated(j) =>
                 C11_Evaluation(posts[reported.tasks[j].post], reported'.tasks[j].query)]_vars

\* A post without flair whose only branch ends in a Goodbye below the
\* threshold has been evaluated and marked "unanswered"
C11_Witness ==
    \E i \in DOMAIN processing :
        /\ processing[i].state = "fulfilled"
        /\ posts[processing[i].post].link_flair_text = <<>>
        /\ Len(posts[processing[i].post].comments) = 1
        /\ Len(processing[i].query.responses.complete) = 1
        /\ processing[i].query.responses.complete[1].goodbye.snooObj.score < 10
        /\ ~processing[i].query.answered
        /\ flairWrites = <<UnansweredWrite(posts[processing[i].post])>>

\* The first complete candidate of highest score, which reaches the threshold
WinnerIn(q) ==
    q.responses.complete[
        CHOOSE j \in DOMAIN q.responses.complete :
            /\ q.responses.complete[j].goodbye.snooObj.score >= 10
            /\ \A k \in DOMAIN q.responses.complete :
                  /\ q.responses.complete[k].goodbye.snooObj.score
                        <= q.responses.complete[j].goodbye.snooObj.score
                  /\ k < j => q.responses.complete[k].goodbye.snooObj.score
                                 < q.responses.complete[j].goodbye.snooObj.score]

\* The label of the winner: the prefix and the joined letters
WinningLabel(q) == OuijaSays \o Flatten(WinnerIn(q).letters)

\* What C12 says of the evaluation of p that returned q
C12_Evaluation(p, q) ==
    HasWinner(p, q) =>
        IF p.link_flair_text = <<WinningLabel(q)>>
        THEN NewFlairWrites = <<>> /\ NewMessages = <<>>
        ELSE /\ NewFlairWrites = <<[post |-> p.id, text |-> WinningLabel(q),
                                    css_class |-> "ouija-result"]>>
             /\ Len(NewMessages) = 1
             /\ NewMessages[1].to = p.author
             /\ NewMessages[1].post = p.id
             /\ NewMessages[1].answer = Flatten(WinnerIn(q).letters)

\* C12: an evaluation with a winner writes no flair and sends no message
\* when the submission carries exactly the winning label, and writes the
\* flair once and sends one message to the author when it does not.
C12_RelabelIdempotent ==
    [][/\ \A i \in DOMAIN processing :
             HotEvaluated(i) =>
                 C12_Evaluation(posts[processing[i].post], processing'[i].query)
       /\ \A j \in DOMAIN reported.tasks :
             ReportedEvaluated(j) =>
                 C12_Evaluation(posts[reported.tasks[j].post], reported'.tasks[j].query)]_vars

\* A reported post that carries "Ouija says: A" has been evaluated to the
\* winner A: nothing was written and nobody notified
C12_Witness ==
    \E j \in DOMAIN reported.tasks :
        /\ reported.tasks[j].state = "fulfilled"
        /\ reported.tasks[j].query.answered
        /\ HasWinner(posts[reported.tasks[j].post], reported.tasks[j].query)
        /\ posts[reported.tasks[j].post].link_flair_text =
              <<WinningLabel(reported.tasks[j].query)>>
        /\ flairWrites = <<>>
        /\ messages = <<>>

\* ------------------------------------------------------------------------
\* Claims about checkHot (SpecBatch)

Settled(k) == processing[k].state \in {"fulfilled", "rejected"}

\* checkHot has nothing left to do: every promise is settled and the
\* Promise.all chain has run
HotFinished ==
    /\ summary.state \in {"published", "failed"}
    /\ \A k \in DOMAIN processing : Settled(k)

\* C13: a failed fetch is fatal for its submission only: once the batch has
\* finished, the summary is published, lists no submission whose fetch
\* failed and lists every unanswered submission whose evaluation completed.
C13_FailureFatalForOneOnly ==
    HotFinished =>
        /\ Published
        /\ \A k \in DOMAIN processing :
              /\ processing[k].state = "rejected" => ~Listed(k)
              /\ (processing[k].state = "fulfilled"
                    /\ ~HasWinner(PostOf(k), QueryOf(k))) => ListedWithCandidates(k)

\* C13, what the code does: after a failed fetch the other evaluations still
\* run, but the summary is never published.
C13_NoSummaryAfterFailure ==
    (\E k \in DOMAIN processing : processing[k].state = "rejected") => ~Published


\* C14: the summary is published only when every evaluation started by
\* checkHot has completed, and once published it is never written again.
C14_PublishedOnceAfterAll ==
    [][/\ summary'.state = "published" =>
             \A k \in DOMAIN processing' : processing'[k].state = "fulfilled"
       /\ summary.state = "published" => summary' = summary
       /\ (summary.state # "published" /\ summary'.state = "published") =>
             /\ summary.state = "waiting"
             /\ Len(summary'.text) =
                   Cardinality({k \in DOMAIN processing : ~processing[k].query.answered})]_vars

\* Two posts were fetched and evaluated in some order, then the summary
\* was published with an entry
C14_Witness ==
    /\ Published
    /\ Len(processing) = 2
    /\ \A k \in DOMAIN processing : processing[k].state = "fulfilled"
    /\ Len(summary.text) >= 1
    /\ Len(flairWrites) = 2


\* ------------------------------------------------------------------------
\* updatePostFlair on its own: the label of a winner

MaxAnswer == 70
MaxEmoji == 3

\* n times the letter body
RECURSIVE Repeat(_, _)
Repeat(body, n) == IF n = 0 THEN <<>> ELSE <<body>> \o Repeat(body, n - 1)

\* Winning letters: a run of A and a run of emoji, in either order
Answers ==
    {Repeat(<<"A">>, a) \o Repeat(<<"<emoji>">>, e) : a \in 0..MaxAnswer, e \in 0..MaxEmoji}
    \cup {Repeat(<<"<emoji>">>, e) \o Repeat(<<"A">>, a) : a \in 0..MaxAnswer, e \in 0..MaxEmoji}

InitFlair ==
    /\ threshold = <<<<"1", "0">>>>
    /\ now \in {5000}
    /\ posts = <<Submission(1, <<"q">>, <<>>, now, "op", <<>>, <<>>, <<>>, EmptyMap)>>
    /\ query = NoQuery
    /\ \E letters \in Answers :
          response = [done |-> FALSE,
                      value |-> <<[letters |-> letters,
                                   goodbye |-> OuijaComment(
                                       SnooComment(1, GoodbyeBody, "u1", 1, 12, <<>>, <<>>))]>>]
    /\ NoConstruction
    /\ NoSiblings
    /\ NoBatch
    /\ removals = <<>>
    /\ flairWrites = <<>>
    /\ messages = <<>>

\* The state once updatePostFlair has returned
Flaired(effects) ==
    /\ flairWrites' = flairWrites \o effects.flairWrites
    /\ messages' = messages \o effects.messages

\* updatePostFlair(post, response)
UpdatePostFlair ==
    /\ ~response.done
    /\ Flaired(updatePostFlair(posts[1], response.value[1]))
    /\ response' = [response EXCEPT !.done = TRUE]
    /\ UNCHANGED <<threshold, now, query, posts, removals>>
    /\ UNCHANGED <<classifyVars, dedupVars, batchVars>>

NextFlair == UpdatePostFlair

SpecFlair == InitFlair /\ [][NextFlair]_vars

\* ------------------------------------------------------------------------
\* Claims about the label (SpecFlair)

\* The characters a string of code units shows: a surrogate pair is one
\* emoji, a high surrogate cut from its pair one broken character
RECURSIVE Characters(_)
Characters(units) ==
    IF units = <<>> THEN <<>>
    ELSE IF Head(units) = "<high>" /\ Len(units) > 1 /\ units[2] = "<low>"
    THEN <<"<emoji>">> \o Characters(Tail(Tail(units)))
    ELSE IF Head(units) = "<high>" THEN <<"<broken>">> \o Characters(Tail(units))
    ELSE <<Head(units)>> \o Characters(Tail(units))

\* The prefix and the joined letters, in characters
FullLabel == OuijaSays \o Flatten(response.value[1].letters)

WrittenLabel == flairWrites[1].text

\* C15: the label is the prefix and the joined letters; longer than 64
\* characters, it is its first 61 characters and "...", 64 characters in
\* all; otherwise it is unchanged.
C15_LabelWithin64 ==
    response.done =>
        /\ Len(flairWrites) = 1
        /\ Len(Characters(WrittenLabel)) <= 64
        /\ Characters(WrittenLabel) =
              IF Len(FullLabel) > 64 THEN SubSeq(FullLabel, 1, 61) \o Ellipsis
              ELSE FullLabel

\* C15 read in UTF-16 code units, as text.length and substr count: holds
C15_LabelWithin64Units ==
    response.done =>
        /\ Len(flairWrites) = 1
        /\ Len(WrittenLabel) <= 64
        /\ WrittenLabel =
              IF Len(CodeUnits(FullLabel)) > 64
              THEN SubSeq(CodeUnits(FullLabel), 1, 61) \o Ellipsis
              ELSE CodeUnits(FullLabel)

\* C15 for answers without emoji: holds, 70 letters give 64 characters
C15_LabelWithin64Ascii ==
    (response.done /\ "<emoji>" \notin Range(Flatten(response.value[1].letters)))
        => /\ Len(WrittenLabel) <= 64
           /\ WrittenLabel =
                 IF Len(FullLabel) > 64 THEN SubSeq(FullLabel, 1, 61) \o Ellipsis
                 ELSE FullLabel
           /\ Len(response.value[1].letters) = 70 =>
                 Len(WrittenLabel) = 64 /\ SubSeq(WrittenLabel, 62, 64) = Ellipsis


\* ------------------------------------------------------------------------
\* More claims about one evaluation pass (SpecQuery)

IsPrefix(s, t) == Len(s) <= Len(t) /\ SubSeq(t, 1, Len(s)) = s

IncompleteEndingAt(i) ==
    {k \in DOMAIN query.responses.incomplete :
        query.responses.incomplete[k].lastComment.snooObj.id = i}

\* Some recorded sequence starts with the letters of the path to i
PathRecorded(i) ==
    \/ \E k \in DOMAIN query.responses.complete :
          IsPrefix(LettersOf(PathTo(i)), query.responses.complete[k].letters)
    \/ \E k \in DOMAIN query.responses.incomplete :
          IsPrefix(LettersOf(PathTo(i)), query.responses.incomplete[k].letters)

\* C16: a walked Letter is recorded as incomplete, once, with the letters
\* of its path, if and only if none of its replies by another author is a
\* Letter or an accepted Goodbye; so the path of every walked Letter is a
\* prefix of some recorded sequence.
C16_IncompleteIffNoContinuation ==
    Evaluated =>
        \A i \in CommentIds :
            (Walked(i) /\ TypeAt(i) = Letter) =>
                /\ IsLastOfIncomplete(i) <=> \A r \in RepliesOf(i) : NoContinuation(r)
                /\ Cardinality(IncompleteEndingAt(i)) <= 1
                /\ \A k \in IncompleteEndingAt(i) :
                      query.responses.incomplete[k].letters = LettersOf(PathTo(i))
                /\ PathRecorded(i)

\* A, answered by B of another author, answered by an Invalid comment: B is
\* recorded as incomplete with the letters AB, A is not recorded
C16_Witness ==
    /\ Evaluated
    /\ \E i, r, v \in CommentIds :
          /\ Walked(i) /\ TypeAt(i) = Letter
          /\ ParentOf(r) = i /\ Walked(r) /\ TypeAt(r) = Letter
          /\ ParentOf(v) = r /\ TypeAt(v) = Invalid
          /\ ~IsLastOfIncomplete(i)
          /\ IsLastOfIncomplete(r)
          /\ Len(query.responses.incomplete) = 1
          /\ Len(query.responses.incomplete[1].letters) = 2


\* ------------------------------------------------------------------------
\* More claims about sibling deduplication (SpecDedup)

\* C17: in every order and with every combination of creation times,
\* handle removes as duplicate only comments without replies.
C17_OnlyChildlessRemoved ==
    \A i \in DOMAIN siblings : RemovedAsDuplicate(i) => Childless(i)

\* An earlier childless comment and a later one with replies, under one
\* key: the childless one is removed and the one with replies kept, in
\* whichever order they were handled
C17_Witness ==
    /\ AllHandled
    /\ \E i, j \in DOMAIN siblings :
          /\ HandleKey(i) = HandleKey(j)
          /\ Childless(i) /\ ~Childless(j)
          /\ siblings[i].created_utc < siblings[j].created_utc
          /\ RemovedAsDuplicate(i)
          /\ ~RemovedAsDuplicate(j)
          /\ Retained(j)


\* ------------------------------------------------------------------------
\* Claims about deduplication within one evaluation pass (SpecQuery)

\* C18: no comment removed as a duplicate during the pass ends a recorded
\* complete sequence or a recorded incomplete sequence of that pass.
C18_DuplicateEndsNoSequence ==
    Evaluated =>
        \A i \in CommentIds :
            RemovalCalls(i, "duplicate") # {} =>
                ~IsGoodbyeOfComplete(i) /\ ~IsLastOfIncomplete(i)

\* C18, the sharpest case the code allows: the winner's Goodbye is a
\* comment the same pass has removed as a duplicate. Never so, were C18 true.
C18_WinnerNotRemoved ==
    (Evaluated /\ response.value # <<>>) =>
        ~RemovalSent(response.value[1].goodbye.snooObj.id, "duplicate")


\* A sibling of i that is not Invalid, was handed to the duplicate handler
\* and has the normalized body of i
ValidTwin(i) ==
    \E j \in CommentIds :
        /\ j # i
        /\ ParentOf(j) = ParentOf(i)
        /\ TypeAt(j) # Invalid
        /\ Walked(j)
        /\ parseBody(Comments[j].body) = parseBody(Comments[i].body)

\* C19: at the top level and at every reply level, a Letter or Goodbye
\* comment is removed as a duplicate only when a sibling that is not
\* Invalid has its normalized body, never on account of an Invalid sibling.
C19_InvalidNotDeduplicated ==
    Evaluated =>
        \A i \in CommentIds :
            (TypeAt(i) # Invalid /\ RemovalCalls(i, "duplicate") # {}) => ValidTwin(i)

\* C19 at the top level, where run skips Invalid comments before the
\* duplicate handler: holds
C19_TopLevelInvalidNotDeduplicated ==
    Evaluated =>
        \A i \in CommentIds :
            (ParentOf(i) = 0 /\ TypeAt(i) # Invalid /\ RemovalCalls(i, "duplicate") # {})
                => ValidTwin(i)


\* ------------------------------------------------------------------------
\* More claims about the whole batch invocation (SpecMain)

WinningWritesFor(p) ==
    {k \in DOMAIN flairWrites :
        flairWrites[k].post = p.id /\ flairWrites[k].css_class = "ouija-result"}

NotificationsFor(p) == {k \in DOMAIN messages : messages[k].post = p.id}

\* C20: a submission that is in the hot unanswered set and reported for its
\* flair has its winning label written at most once and its author
\* notified at most once, however the two evaluations interleave.
C20_NotifiedAtMostOnce ==
    \A i \in DOMAIN posts :
        (isUnanswered(posts[i]) /\ reportedIncorrectFlair(posts[i])) =>
            /\ Cardinality(WinningWritesFor(posts[i])) <= 1
            /\ Cardinality(NotificationsFor(posts[i])) <= 1

====
